---- MODULE Spec2Model ----
(***************************************************************************)
(* A model of dx.py, the DX Index command-line client: the band selection *)
(* of main, the fetch, the three renderers, the alert evaluator and the   *)
(* single-shot / watch orchestration.                                       *)
(*                                                                         *)
(* JSON values are records: a string is [str |-> s], a number is          *)
(* [num |-> n], null is [null |-> TRUE], an object is a function from its  *)
(* keys to JSON values.  Python's None is JNull; an optional Python value  *)
(* that is not JSON (args.alert, the result of refresh) is a sequence of   *)
(* length 0 or 1.                                                          *)
(***************************************************************************)
EXTENDS Integers, Sequences, FiniteSets, TLC

VARIABLES args, bands, pc, data, lastFetch, fetches, result, out, err,
          exit, cause, server

vars == <<args, bands, pc, data, lastFetch, fetches, result, out, err,
          exit, cause, server>>

(***************************************************************************)
(* Bounds of the model.                                                    *)
(***************************************************************************)
\* longest list of positional band arguments (no band named twice)
MaxArgs == 4
\* longest list of positional band arguments in the runs that vary the
\* document rather than the list
MaxShortArgs == 2
\* fetches a watch-mode run is followed for
MaxFetches == 2

(***************************************************************************)
(* JSON values and Python's dict / truthiness operations.                  *)
(***************************************************************************)
JNull == [null |-> TRUE]
JStr(s) == [str |-> s]
JNum(n) == [num |-> n]
EmptyObj == [k \in {} |-> JNull]

IsNull(v) == DOMAIN v = {"null"}
IsStr(v) == DOMAIN v = {"str"}
IsNum(v) == DOMAIN v = {"num"}

\* d.get(k, default)
PyGet(d, k, default) == IF k \in DOMAIN d THEN d[k] ELSE default

\* bool(v) for a JSON value
Truthy(v) ==
    IF IsNull(v) THEN FALSE
    ELSE IF IsNum(v) THEN v.num # 0
    ELSE IF IsStr(v) THEN v.str # ""
    ELSE DOMAIN v # {}

\* x in list
InSeq(x, s) == \E i \in 1..Len(s) : s[i] = x

\* list.index(x): the first position holding x
IndexOf(s, x) == CHOOSE i \in 1..Len(s) : s[i] = x /\ \A j \in 1..(i-1) : s[j] # x

Range(s) == {s[i] : i \in 1..Len(s)}

(***************************************************************************)
(* Module-level tables.                                                    *)
(***************************************************************************)
ALL_BANDS == <<"10m", "15m", "20m", "40m">>

SYMBOLS ==
    [Excellent |-> "blue", Good |-> "green", Fair |-> "orange",
     Poor |-> "red", VeryPoor |-> "black"]

SYMBOLS_ASCII ==
    [Excellent |-> "[++++]", Good |-> "[+++ ]", Fair |-> "[++  ]",
     Poor |-> "[+   ]", VeryPoor |-> "[    ]"]

rating_order == <<"VeryPoor", "Poor", "Fair", "Good", "Excellent">>

(***************************************************************************)
(* check_alert                                                             *)
(***************************************************************************)
\* the comparison of a band's rating against the threshold level, with >
RatingMeetsStrict(rating, min_level) ==
    /\ IsStr(rating)
    /\ InSeq(rating.str, rating_order)
    /\ IndexOf(rating_order, rating.str) > min_level

\* rating in rating_order and rating_order.index(rating) >= min_level
RatingMeets(rating, min_level) ==
    /\ IsStr(rating)
    /\ InSeq(rating.str, rating_order)
    /\ IndexOf(rating_order, rating.str) >= min_level

RECURSIVE AlertLoop(_, _, _)
AlertLoop(band_data, bs, min_level) ==
    IF bs = <<>> THEN FALSE
    ELSE LET band == Head(bs) IN
         IF band \in DOMAIN band_data
            /\ RatingMeets(PyGet(band_data[band], "rating", JStr("VeryPoor")), min_level)
         THEN TRUE
         ELSE AlertLoop(band_data, Tail(bs), min_level)

check_alert(d, bs, min_rating) ==
    IF ~InSeq(min_rating, rating_order) THEN FALSE
    ELSE AlertLoop(PyGet(d, "bands", EmptyObj), bs, IndexOf(rating_order, min_rating))

(***************************************************************************)
(* The text a formatter returns.  Both format_standard and format_compact  *)
(* return the same string "Error: <message>" for a server-reported error.  *)
(***************************************************************************)
ErrorText(msg) == [error |-> msg]

\* vs_typical and vs_typical > 20
IsPeak(vs_typical) == Truthy(vs_typical) /\ IsNum(vs_typical) /\ vs_typical.num > 20

(***************************************************************************)
(* format_compact                                                          *)
(***************************************************************************)
CompactPart(band, d) ==
    LET vs_typical == PyGet(d, "vs_typical", JNull) IN
    [band |-> band,
     rating |-> PyGet(d, "rating", JStr("?")),
     idx |-> PyGet(d, "index", JNum(0)),
     peak |-> IF IsPeak(vs_typical) THEN <<vs_typical>> ELSE <<>>]

RECURSIVE CompactParts(_, _)
CompactParts(band_data, bs) ==
    IF bs = <<>> THEN <<>>
    ELSE (IF Head(bs) \in DOMAIN band_data
          THEN <<CompactPart(Head(bs), band_data[Head(bs)])>>
          ELSE <<>>) \o CompactParts(band_data, Tail(bs))

format_compact(d, bs) ==
    IF "error" \in DOMAIN d THEN ErrorText(d["error"])
    ELSE [compact |-> CompactParts(PyGet(d, "bands", EmptyObj), bs)]

(***************************************************************************)
(* format_standard.  A line of the report is a record naming the line and  *)
(* the values formatted into it.                                           *)
(***************************************************************************)
\* data["updated"].replace("Z", "+00:00"), over the timestamps of the model
ReplaceZ(s) == IF s = "2025-12-10T14:30:00Z" THEN "2025-12-10T14:30:00+00:00" ELSE s

\* datetime.fromisoformat(s).strftime('%Y-%m-%d %H:%M'): <<text>>, or <<>> when
\* fromisoformat raises
FromIsoFormat(s) ==
    IF s = "2025-12-10T14:30:00+00:00" THEN <<"2025-12-10 14:30">> ELSE <<>>

\* the timestamp line; a value that is no string, or no ISO-8601 string,
\* raises inside the try and the bare except drops the line
UpdatedLines(d) ==
    IF "updated" \notin DOMAIN d THEN <<>>
    ELSE IF ~IsStr(d["updated"]) THEN <<>>
    ELSE LET ts == FromIsoFormat(ReplaceZ(d["updated"].str)) IN
         IF ts = <<>> THEN <<>> ELSE <<[line |-> "updated", ts |-> ts[1]]>>

\* symbols.get(rating, "?")
SymbolOf(symbols, rating) ==
    IF IsStr(rating) /\ rating.str \in DOMAIN symbols THEN symbols[rating.str] ELSE "?"

BandLine(band, d, use_ascii) ==
    LET symbols == IF use_ascii THEN SYMBOLS_ASCII ELSE SYMBOLS
        rating == PyGet(d, "rating", JStr("?"))
        vs_typical == PyGet(d, "vs_typical", JNull)
    IN  [line |-> "band",
         band |-> band,
         idx |-> PyGet(d, "index", JNum(0)),
         symbol |-> SymbolOf(symbols, rating),
         rating |-> rating,
         peak |-> IF IsPeak(vs_typical) THEN <<vs_typical>> ELSE <<>>,
         arrow |-> IsPeak(vs_typical) /\ ~use_ascii,
         fcst |-> PyGet(d, "forecast", JNum(0)),
         fcst_rating |-> PyGet(d, "forecast_rating", JStr("?"))]

RECURSIVE BandLines(_, _, _)
BandLines(band_data, bs, use_ascii) ==
    IF bs = <<>> THEN <<>>
    ELSE (IF Head(bs) \in DOMAIN band_data
          THEN <<BandLine(Head(bs), band_data[Head(bs)], use_ascii)>>
          ELSE <<>>) \o BandLines(band_data, Tail(bs), use_ascii)

\* if solar.get("sfi") and solar.get("kp")
SolarShown(solar) ==
    Truthy(PyGet(solar, "sfi", JNull)) /\ Truthy(PyGet(solar, "kp", JNull))

SolarLines(d) ==
    LET solar == PyGet(d, "solar", EmptyObj) IN
    IF SolarShown(solar)
    THEN <<[line |-> "solar", sfi |-> solar["sfi"], kp |-> solar["kp"]]>>
    ELSE <<>>

StormLines(d, use_ascii) ==
    LET storm == PyGet(d, "storm", JNull) IN
    IF Truthy(storm) /\ ~IsNull(PyGet(storm, "probability", JNull))
    THEN LET prob == storm["probability"]
             kp == PyGet(storm, "predicted_kp", JNum(0))
         IN  IF prob.num >= 50
             THEN <<[line |-> "storm", mark |-> IF use_ascii THEN "[!]" ELSE "warning",
                     prob |-> prob, kp |-> kp]>>
             ELSE IF prob.num >= 30
             THEN <<[line |-> "storm", mark |-> "", prob |-> prob, kp |-> kp]>>
             ELSE <<>>
    ELSE <<>>

\* the footer's source with a leading https:// or http:// cut off, over the
\* source strings of the model
StripScheme(source) ==
    IF source = "https://example.org" THEN "example.org"
    ELSE IF source = "http://example.org" THEN "example.org"
    ELSE source

Line(name) == [line |-> name]

format_standard(d, bs, use_ascii) ==
    IF "error" \in DOMAIN d THEN ErrorText(d["error"])
    ELSE [lines |->
            <<Line("blank"), Line("rule"), Line("title"), Line("rule")>>
            \o UpdatedLines(d)
            \o <<Line("blank"), Line("header"), Line("dash")>>
            \o BandLines(PyGet(d, "bands", EmptyObj), bs, use_ascii)
            \o <<Line("blank")>>
            \o SolarLines(d)
            \o StormLines(d, use_ascii)
            \o <<Line("rule"),
                 [line |-> "source",
                  source |-> StripScheme(PyGet(d, "source", JStr("wspr.hb9vqq.ch")).str)],
                 Line("blank")>>]

(***************************************************************************)
(* json.dumps and json.loads.  The serialized text is the sequence of its  *)
(* tokens (indentation is not kept).  A Python dict is written in          *)
(* insertion order; the model writes the members in an arbitrary fixed     *)
(* order, which equality of the parsed values does not observe.            *)
(***************************************************************************)
Tok(t) == [tok |-> t]

RECURSIVE KeysOf(_)
KeysOf(S) ==
    IF S = {} THEN <<>>
    ELSE LET k == CHOOSE x \in S : TRUE IN <<k>> \o KeysOf(S \ {k})

RECURSIVE dumps(_), DumpMembers(_, _)
dumps(v) ==
    IF IsNull(v) THEN <<Tok("null")>>
    ELSE IF IsStr(v) THEN <<[tok |-> "string", s |-> v.str]>>
    ELSE IF IsNum(v) THEN <<[tok |-> "number", n |-> v.num]>>
    ELSE <<Tok("{")>> \o DumpMembers(v, KeysOf(DOMAIN v)) \o <<Tok("}")>>

DumpMembers(o, ks) ==
    IF ks = <<>> THEN <<>>
    ELSE <<[tok |-> "key", s |-> Head(ks)]>> \o dumps(o[Head(ks)])
         \o (IF Len(ks) > 1 THEN <<Tok(",")>> ELSE <<>>)
         \o DumpMembers(o, Tail(ks))

\* the parse of the value starting at token i: [val, next]
RECURSIVE ParseValue(_, _), ParseMembers(_, _, _)
ParseValue(ts, i) ==
    LET t == ts[i] IN
    IF t.tok = "null" THEN [val |-> JNull, next |-> i + 1]
    ELSE IF t.tok = "string" THEN [val |-> JStr(t.s), next |-> i + 1]
    ELSE IF t.tok = "number" THEN [val |-> JNum(t.n), next |-> i + 1]
    ELSE ParseMembers(ts, i + 1, EmptyObj)

ParseMembers(ts, i, acc) ==
    IF ts[i].tok = "}" THEN [val |-> acc, next |-> i + 1]
    ELSE IF ts[i].tok = "," THEN ParseMembers(ts, i + 1, acc)
    ELSE LET r == ParseValue(ts, i + 1) IN
         ParseMembers(ts, r.next, (ts[i].s :> r.val) @@ acc)

loads(ts) == ParseValue(ts, 1).val

(***************************************************************************)
(* format_json                                                             *)
(***************************************************************************)
\* the guard of the "storm" member of the reduced object, as a truth test
StormKeptIfTruthy(d) == Truthy(PyGet(d, "storm", JNull))

\* if "storm" in data
StormKept(d) == "storm" \in DOMAIN d

Filtered(d, bs) ==
    LET band_data == PyGet(d, "bands", EmptyObj)
        filtered ==
            [updated |-> PyGet(d, "updated", JNull),
             bands |-> [b \in {x \in Range(bs) : x \in DOMAIN band_data} |->
                          PyGet(band_data, b, JNull)],
             solar |-> PyGet(d, "solar", JNull)]
    IN  IF StormKept(d) THEN ("storm" :> d["storm"]) @@ filtered ELSE filtered

\* the guard format_standard and format_compact open with, put on format_json
format_json_ShortCircuit(d, bs) ==
    IF "error" \in DOMAIN d THEN ErrorText(d["error"])
    ELSE IF bs # ALL_BANDS THEN [json |-> dumps(Filtered(d, bs))]
    ELSE [json |-> dumps(d)]

format_json(d, bs) ==
    IF bs # ALL_BANDS THEN [json |-> dumps(Filtered(d, bs))]
    ELSE [json |-> dumps(d)]

(***************************************************************************)
(* main: the band selection.                                               *)
(***************************************************************************)
AllBandSet == Range(ALL_BANDS)

\* the list comprehension [b for b in args.bands if b in ALL_BANDS]
ValidOf(arg_bands) == SelectSeq(arg_bands, LAMBDA b : InSeq(b, ALL_BANDS))

\* the selection made by walking ALL_BANDS instead of the user's list
SelectedBandsCanonical(arg_bands) ==
    IF arg_bands # <<>> THEN SelectSeq(ALL_BANDS, LAMBDA b : InSeq(b, arg_bands))
    ELSE ALL_BANDS

SelectedBands(arg_bands) ==
    IF arg_bands # <<>> THEN ValidOf(arg_bands) ELSE ALL_BANDS

(***************************************************************************)
(* main: the command line.  args.alert is <<>> when --alert is not given   *)
(* and <<s>> when it is given the string s.                                *)
(***************************************************************************)
\* if args.alert: a string is true when it is not empty
AlertOn(alert) == alert # <<>> /\ alert[1] # ""

\* the text printed by the non-alert branch of refresh
Rendered(a, d, bs) ==
    IF a.json THEN format_json(d, bs)
    ELSE IF a.compact THEN format_compact(d, bs)
    ELSE format_standard(d, bs, a.ascii)

ClearText == [control |-> "clear"]
Notice(interval) == [notice |-> interval]
Farewell == [text |-> "Exiting..."]

(***************************************************************************)
(* The steps of main.  pc is the position in main: "start" before the band *)
(* selection, "clear", "fetch", "refresh", "notice", "sleep" inside the    *)
(* watch loop, "fetch", "refresh", "after" in a single-shot run, "exited"  *)
(* once the process has ended.  exit is <<>> while it runs and <<status>>  *)
(* afterwards; cause names the statement that ended it.                    *)
(***************************************************************************)
SelectBands ==
    /\ pc = "start"
    /\ LET chosen == SelectedBands(args.bands) IN
       IF chosen = <<>>
       THEN /\ err' = Append(err, "Error: No valid bands specified")
            /\ exit' = <<1>>
            /\ cause' = "bands"
            /\ pc' = "exited"
            /\ UNCHANGED bands
       ELSE /\ bands' = chosen
            /\ pc' = IF args.watch THEN "clear" ELSE "fetch"
            /\ UNCHANGED <<err, exit, cause>>
    /\ UNCHANGED <<args, data, lastFetch, fetches, result, out, server>>

ClearScreen ==
    /\ pc = "clear"
    /\ fetches < MaxFetches
    /\ out' = Append(out, ClearText)
    /\ pc' = "fetch"
    /\ UNCHANGED <<args, bands, data, lastFetch, fetches, result, err, exit, cause, server>>

FetchOk ==
    /\ pc = "fetch"
    /\ \E d \in server : data' = d
    /\ lastFetch' = "ok"
    /\ fetches' = fetches + 1
    /\ pc' = "refresh"
    /\ UNCHANGED <<args, bands, result, out, err, exit, cause, server>>

\* a handler that reports the failure and goes on to the next step of the run
FetchFailedAndContinue(kind) ==
    /\ pc = "fetch"
    /\ lastFetch' = kind
    /\ fetches' = fetches + 1
    /\ err' = Append(err, kind)
    /\ pc' = "refresh"
    /\ UNCHANGED <<args, bands, data, result, out, exit, cause, server>>

\* the except clauses of fetch_data: report on stderr, sys.exit(1).  SystemExit
\* is not a KeyboardInterrupt, so the watch loop's handler lets it through.
FetchFailed(kind) ==
    /\ pc = "fetch"
    /\ lastFetch' = kind
    /\ fetches' = fetches + 1
    /\ err' = Append(err, kind)
    /\ exit' = <<1>>
    /\ cause' = "fetch"
    /\ pc' = "exited"
    /\ UNCHANGED <<args, bands, data, result, out, server>>

FetchURLError == FetchFailed("URLError")

FetchJSONDecodeError == FetchFailed("JSONDecodeError")

RefreshBody ==
    /\ pc = "refresh"
    /\ IF AlertOn(args.alert)
       THEN /\ result' = <<check_alert(data, bands, args.alert[1])>>
            /\ out' = out
       ELSE /\ out' = Append(out, Rendered(args, data, bands))
            /\ result' = <<>>
    /\ pc' = IF args.watch THEN "notice" ELSE "after"
    /\ UNCHANGED <<args, bands, data, lastFetch, fetches, err, exit, cause, server>>

PrintNotice ==
    /\ pc = "notice"
    /\ out' = Append(out, Notice(args.interval))
    /\ pc' = "sleep"
    /\ UNCHANGED <<args, bands, data, lastFetch, fetches, result, err, exit, cause, server>>

SleepDone ==
    /\ pc = "sleep"
    /\ args.interval >= 0
    /\ pc' = "clear"
    /\ UNCHANGED <<args, bands, data, lastFetch, fetches, result, out, err, exit, cause, server>>

\* time.sleep raises ValueError for a negative length; nothing catches it
SleepValueError ==
    /\ pc = "sleep"
    /\ args.interval < 0
    /\ err' = Append(err, "ValueError")
    /\ exit' = <<1>>
    /\ cause' = "sleep"
    /\ pc' = "exited"
    /\ UNCHANGED <<args, bands, data, lastFetch, fetches, result, out, server>>

\* an interrupt that nothing catches: no farewell, the status of SIGINT
InterruptUncaught ==
    /\ args.watch
    /\ pc \in {"clear", "fetch", "refresh", "notice", "sleep"}
    /\ err' = Append(err, "KeyboardInterrupt")
    /\ exit' = <<130>>
    /\ cause' = "interrupt"
    /\ pc' = "exited"
    /\ UNCHANGED <<args, bands, data, lastFetch, fetches, result, out, server>>

\* KeyboardInterrupt anywhere inside the try of the watch loop
Interrupt ==
    /\ args.watch
    /\ pc \in {"clear", "fetch", "refresh", "notice", "sleep"}
    /\ out' = Append(out, Farewell)
    /\ exit' = <<0>>
    /\ cause' = "interrupt"
    /\ pc' = "exited"
    /\ UNCHANGED <<args, bands, data, lastFetch, fetches, result, err, server>>

\* the end of the single-shot branch: sys.exit(0 if result else 1) under
\* if args.alert, otherwise main returns
Finish ==
    /\ pc = "after"
    /\ IF AlertOn(args.alert)
       THEN /\ exit' = IF result = <<TRUE>> THEN <<0>> ELSE <<1>>
            /\ cause' = "alert"
       ELSE /\ exit' = <<0>>
            /\ cause' = "return"
    /\ pc' = "exited"
    /\ UNCHANGED <<args, bands, data, lastFetch, fetches, result, out, err, server>>

(***************************************************************************)
(* The inputs: command lines and the documents the server may answer with. *)
(***************************************************************************)
\* every object over a subset of the keys K, key k holding a value of Vals[k]
OptObjs(K, Vals) ==
    UNION { {f \in [S -> UNION {Vals[k] : k \in S}] : \A k \in S : f[k] \in Vals[k]}
            : S \in SUBSET K }

\* band names a user may type: the four bands and one the program does not know
ArgBandNames == AllBandSet \cup {"80m"}

Injective(s) == \A i, j \in 1..Len(s) : i # j => s[i] # s[j]

\* the lists of at most n band arguments naming no band twice, and the lists
\* naming one band twice
ArgLists(n) ==
    {s \in UNION {[1..k -> ArgBandNames] : k \in 0..n} : Injective(s)}
    \cup {<<b, b>> : b \in ArgBandNames}

Reading(rating, vs_typical) ==
    (IF rating # <<>> THEN "rating" :> JStr(rating[1]) ELSE EmptyObj)
    @@ (IF vs_typical # <<>> THEN "vs_typical" :> JNum(vs_typical[1]) ELSE EmptyObj)
    @@ [index |-> JNum(42), forecast |-> JNum(45), forecast_rating |-> JStr("Fair")]

FairPeak == Reading(<<"Fair">>, <<25>>)
GoodReading == Reading(<<"Good">>, <<-5>>)
PoorReading == Reading(<<"Poor">>, <<>>)

Timestamp == JStr("2025-12-10T14:30:00Z")
Solar == [sfi |-> JNum(70), kp |-> JNum(3)]
Storm == [probability |-> JNum(55), predicted_kp |-> JNum(6)]
ErrorDoc == [error |-> JStr("service unavailable")]

\* documents for the alert evaluator: every rating, an unknown rating and an
\* absent rating on two bands, and a band the program does not know
AlertReadings ==
    {Reading(<<r>>, <<>>) : r \in Range(rating_order) \cup {"Bogus"}}
    \cup {Reading(<<>>, <<>>)}

DocsAlert ==
    {[bands |-> m] :
        m \in OptObjs({"10m", "20m", "80m"},
                      [k \in {"10m", "20m", "80m"} |->
                         IF k = "80m" THEN {Reading(<<"Excellent">>, <<>>)}
                         ELSE AlertReadings])}
    \cup {[updated |-> Timestamp]}

\* documents for the JSON renderer: every top-level key present or absent
DocsJson ==
    OptObjs({"updated", "bands", "solar", "storm", "source", "error"},
            [updated |-> {Timestamp},
             bands |-> {EmptyObj,
                        [b \in {"10m"} |-> FairPeak],
                        [b \in {"10m", "40m", "80m"} |->
                           IF b = "10m" THEN GoodReading ELSE PoorReading]},
             solar |-> {Solar},
             storm |-> {JNull, Storm},
             source |-> {JStr("https://example.org")},
             error |-> {JStr("service unavailable")}])

\* documents for the Standard renderer: the solar and storm records in
\* every shape, around three settings of the other keys
SolarRecords ==
    OptObjs({"sfi", "kp"}, [sfi |-> {JNum(0), JNum(70)}, kp |-> {JNum(0), JNum(3)}])

StormRecords ==
    {JNull, EmptyObj, [predicted_kp |-> JNum(6)]}
    \cup {[probability |-> JNum(p), predicted_kp |-> JNum(6)] : p \in {10, 35, 55}}
    \cup {[probability |-> JNum(55)]}

RestOfDoc ==
    {EmptyObj,
     [updated |-> Timestamp, source |-> JStr("https://example.org"),
      bands |-> [b \in AllBandSet \cup {"80m"} |->
                   IF b = "10m" THEN FairPeak ELSE GoodReading]],
     [updated |-> JStr("yesterday"), source |-> JStr("http://example.org"),
      bands |-> [b \in {"15m", "40m"} |-> Reading(<<>>, <<0>>)]]}

DocsStandard ==
    {s @@ t @@ r :
        s \in {EmptyObj} \cup {[solar |-> x] : x \in SolarRecords},
        t \in {EmptyObj} \cup {[storm |-> x] : x \in StormRecords},
        r \in RestOfDoc}
    \cup {ErrorDoc, ErrorDoc @@ [solar |-> Solar]}

\* documents for the runs that vary the command line
DocsMain ==
    {ErrorDoc,
     [updated |-> Timestamp, solar |-> Solar,
      bands |-> [b \in AllBandSet \cup {"80m"} |->
                   IF b = "15m" THEN GoodReading
                   ELSE IF b = "80m" THEN Reading(<<"Excellent">>, <<>>)
                   ELSE PoorReading]],
     [bands |-> [b \in {"10m", "20m"} |-> FairPeak], storm |-> JNull]}

Args(lists, jsons, compacts, asciis, watches, intervals, alerts) ==
    [bands : lists, json : jsons, compact : compacts, ascii : asciis,
     watch : watches, interval : intervals, alert : alerts]

NoAlert == {<<>>}

InitWith(argSet, docSet) ==
    /\ args \in argSet
    /\ server = docSet
    /\ bands = <<>>
    /\ pc = "start"
    /\ data = EmptyObj
    /\ lastFetch = "none"
    /\ fetches = 0
    /\ result = <<>>
    /\ out = <<>>
    /\ err = <<>>
    /\ exit = <<>>
    /\ cause = "none"

(***************************************************************************)
(* Spec: main over every combination of the mode flags.                    *)
(***************************************************************************)
MainArgs ==
    Args({<<>>, <<"10m">>, <<"15m", "10m">>, <<"80m">>},
         BOOLEAN, BOOLEAN, {FALSE}, BOOLEAN, {-1, 60},
         {<<>>, <<"">>, <<"Good">>, <<"Excellent">>, <<"Bogus">>})

Init == InitWith(MainArgs, DocsMain)

Next ==
    \/ SelectBands
    \/ ClearScreen
    \/ FetchOk
    \/ FetchURLError
    \/ FetchJSONDecodeError
    \/ RefreshBody
    \/ PrintNotice
    \/ SleepDone
    \/ SleepValueError
    \/ Interrupt
    \/ Finish

Spec == Init /\ [][Next]_vars

(***************************************************************************)
(* The single-shot specifications: one run of main without --watch, the    *)
(* inputs drawn for the function under study.                              *)
(***************************************************************************)
NextOnce ==
    \/ SelectBands
    \/ FetchOk
    \/ FetchURLError
    \/ FetchJSONDecodeError
    \/ RefreshBody
    \/ Finish

\* check_alert: --alert with every rating name and one unknown name
InitAlert ==
    InitWith(Args(ArgLists(MaxShortArgs), {FALSE}, {FALSE}, {FALSE}, {FALSE}, {60},
                  {<<r>> : r \in Range(rating_order) \cup {"Bogus"}}),
             DocsAlert)

SpecAlert == InitAlert /\ [][NextOnce]_vars

\* format_json: --json with every band list
InitJson ==
    InitWith(Args(ArgLists(MaxArgs), {TRUE}, {FALSE}, {FALSE}, {FALSE}, {60}, NoAlert),
             DocsJson)

SpecJson == InitJson /\ [][NextOnce]_vars

\* format_standard: the table with and without --ascii
InitStandard ==
    InitWith(Args({<<>>, <<"10m">>, <<"40m", "10m">>}, {FALSE}, {FALSE}, BOOLEAN,
                  {FALSE}, {60}, NoAlert),
             DocsStandard)

SpecStandard == InitStandard /\ [][NextOnce]_vars

\* the band selection: every band list, through the Standard and the
\* Compact renderer and the alert evaluator
InitSelect ==
    InitWith(Args(ArgLists(MaxArgs), {FALSE}, BOOLEAN, {FALSE}, {FALSE}, {60},
                  {<<>>, <<"Good">>}),
             DocsMain)

SpecSelect == InitSelect /\ [][NextOnce]_vars

(***************************************************************************)
(* Properties.                                                             *)
(***************************************************************************)
\* a single-shot run whose fetch succeeded and whose refresh has returned
Refreshed == ~args.watch /\ lastFetch = "ok" /\ pc \in {"after", "exited"}

FetchFailures == {"URLError", "JSONDecodeError"}

ScalePosition ==
    [VeryPoor |-> 0, Poor |-> 1, Fair |-> 2, Good |-> 3, Excellent |-> 4]

\* some band both requested and present in the document is rated at or above R
SomeBandAtLeast(d, bs, R) ==
    /\ R \in DOMAIN ScalePosition
    /\ \E b \in Range(bs) \cap DOMAIN PyGet(d, "bands", EmptyObj) :
          LET rating == PyGet(d["bands"][b], "rating", JStr("VeryPoor")) IN
          /\ IsStr(rating)
          /\ rating.str \in DOMAIN ScalePosition
          /\ ScalePosition[rating.str] >= ScalePosition[R]

\* the subsequence of s made of its elements that lie in S, in the order of s
\* and with its repeats
KthIndex(I, k) == CHOOSE i \in I : Cardinality({j \in I : j <= i}) = k

SubseqIn(s, S) ==
    LET I == {i \in 1..Len(s) : s[i] \in S} IN
    [k \in 1..Cardinality(I) |-> s[KthIndex(I, k)]]

\* the band named by each row of the Standard table / segment of the Compact line
RowBands(text) ==
    IF "lines" \in DOMAIN text
    THEN LET rows == SelectSeq(text.lines, LAMBDA l : l.line = "band") IN
         [k \in 1..Len(rows) |-> rows[k].band]
    ELSE [k \in 1..Len(text.compact) |-> text.compact[k].band]

\* C1: with --alert R for a rating name R, check_alert returns true exactly
\* when some band that is requested and present in the document has a rating
\* (VeryPoor when absent) at or above R on the scale; a rating outside the
\* five names satisfies no threshold.
C1_AlertIffSomeBandMeets ==
    (Refreshed /\ AlertOn(args.alert) /\ InSeq(args.alert[1], rating_order))
        => result = <<SomeBandAtLeast(data, bands, args.alert[1])>>

\* a true answer that rests on a band rated exactly at the threshold
C1_Witness ==
    /\ Refreshed
    /\ args.alert = <<"Good">>
    /\ result = <<TRUE>>
    /\ ~SomeBandAtLeast(data, bands, "Excellent")
    /\ "80m" \in DOMAIN data["bands"]

\* C2: in a single-shot run with the alert flag supplied and a successful
\* fetch, nothing is printed and the exit status is 0 when the alert
\* evaluation of the document is true and 1 otherwise, whatever the other
\* mode flags.
C2_AlertTakesPrecedence ==
    (Refreshed /\ pc = "exited" /\ args.alert # <<>>)
        => /\ out = <<>>
           /\ exit = <<IF SomeBandAtLeast(data, bands, args.alert[1]) THEN 0 ELSE 1>>

\* C3: with --json, when the requested bands are the full canonical set, the
\* output parses back to the input document.
C3_JsonRoundTrip ==
    (Refreshed /\ args.json /\ Range(bands) = AllBandSet)
        => /\ Len(out) = 1
           /\ loads(out[1].json) = data

\* C4: with --json and a requested band list that is a strict subset of the
\* canonical bands, the output's bands mapping has exactly the requested and
\* present bands, each with the document's reading, and the output has a
\* storm key exactly when the document has one.
C4_JsonReduction ==
    (Refreshed /\ args.json /\ Range(bands) # AllBandSet)
        => /\ Len(out) = 1
           /\ LET o == loads(out[1].json)
                  band_data == PyGet(data, "bands", EmptyObj)
              IN  /\ DOMAIN o["bands"] = Range(bands) \cap DOMAIN band_data
                  /\ \A b \in DOMAIN o["bands"] : o["bands"][b] = band_data[b]
                  /\ ("storm" \in DOMAIN o) <=> ("storm" \in DOMAIN data)

\* a reduced output that keeps a null storm, drops a present band that was
\* not requested and has no entry for a requested band that is absent
C4_Witness ==
    /\ Refreshed
    /\ args.json
    /\ bands = <<"20m", "10m">>
    /\ "storm" \in DOMAIN data
    /\ data["storm"] = JNull
    /\ "bands" \in DOMAIN data
    /\ DOMAIN data["bands"] = {"10m", "40m", "80m"}
    /\ DOMAIN loads(out[1].json)["bands"] = {"10m"}

\* C5 as stated: the band list handed on is the intersection of the user's
\* list with the canonical set in canonical order, with no band twice.
C5_CanonicalOrder ==
    (pc # "start" /\ cause # "bands")
        => bands = (IF args.bands = <<>> THEN ALL_BANDS
                    ELSE SubseqIn(ALL_BANDS, Range(args.bands)))

\* C5 amended: the band list handed on is the user's list without the names
\* outside the canonical set, in the user's order and with the user's
\* repeats (the canonical list when the user names no band), and the rows of
\* the Standard table and the segments of the Compact line follow that list.
C5_UserOrderKept ==
    /\ (pc # "start" /\ cause # "bands")
          => bands = (IF args.bands = <<>> THEN ALL_BANDS
                      ELSE SubseqIn(args.bands, AllBandSet))
    /\ (Refreshed /\ ~AlertOn(args.alert) /\ "error" \notin DOMAIN data)
          => RowBands(out[1]) = SubseqIn(bands, DOMAIN PyGet(data, "bands", EmptyObj))

\* rows printed in the user's order, which is not the canonical one
C5_Witness ==
    /\ Refreshed
    /\ ~args.compact
    /\ args.bands = <<"40m", "80m", "15m", "10m">>
    /\ Len(out) = 1
    /\ "lines" \in DOMAIN out[1]
    /\ RowBands(out[1]) = <<"40m", "15m", "10m">>

\* C6 as stated: for every document with an error field and every band
\* list, --json serializes the document as it is, so the output keeps the
\* error field, and the run does not fail.
C6_ErrorSerializedAsIs ==
    (Refreshed /\ args.json /\ "error" \in DOMAIN data)
        => /\ Len(out) = 1
           /\ "json" \in DOMAIN out[1]
           /\ loads(out[1].json) = data
           /\ "error" \in DOMAIN loads(out[1].json)
           /\ (pc = "exited" => exit = <<0>>)

\* C6 amended: for every document with an error field, --json never prints
\* the one-line error message and the run ends with status 0; the output is
\* the document as it is, error field included, when the band list is
\* exactly [10m, 15m, 20m, 40m], and for every other band list it is the
\* reduced object (updated, bands, solar and, if present, storm), which has
\* no error field.
C6_ErrorNotShortCircuited ==
    (Refreshed /\ args.json /\ "error" \in DOMAIN data)
        => /\ Len(out) = 1
           /\ "json" \in DOMAIN out[1]
           /\ (pc = "exited" => exit = <<0>>)
           /\ LET o == loads(out[1].json) IN
              IF bands = ALL_BANDS
              THEN o = data /\ o["error"] = data["error"]
              ELSE /\ {"updated", "bands", "solar"} \subseteq DOMAIN o
                   /\ DOMAIN o \subseteq {"updated", "bands", "solar", "storm"}

\* an error document printed in reduced form, the error field gone
C6_Witness ==
    /\ Refreshed
    /\ pc = "exited"
    /\ args.json
    /\ args.bands = <<"10m">>
    /\ "error" \in DOMAIN data
    /\ "source" \in DOMAIN data
    /\ "error" \notin DOMAIN loads(out[1].json)
    /\ exit = <<0>>

\* the state a failed fetch leaves, and the steps around it
C7_FailedFetchState ==
    lastFetch \in FetchFailures
        => /\ pc = "exited"
           /\ exit = <<1>>
           /\ cause = "fetch"
           /\ err # <<>>
           /\ err[Len(err)] = lastFetch

C7_FailedFetchStep ==
    /\ (lastFetch' \in FetchFailures /\ lastFetch \notin FetchFailures)
          => (out' = out /\ result' = result /\ data' = data /\ Len(err') = Len(err) + 1)
    /\ lastFetch \in FetchFailures
          => (fetches' = fetches /\ out' = out /\ result' = result /\ exit' = exit)

\* C7: in every run a failed fetch (transport failure or invalid body) is
\* reported on the error stream, ends the process with status 1, and is
\* followed by no fetch, no rendering and no alert evaluation.
C7_FetchFailureIsFatal == [](C7_FailedFetchState) /\ [][C7_FailedFetchStep]_vars

\* a watch-mode run whose second fetch fails
C7_Witness ==
    /\ args.watch
    /\ lastFetch = "JSONDecodeError"
    /\ fetches = 2
    /\ exit = <<1>>
    /\ Len(out) >= 3

C9_WatchAlwaysRenders ==
    /\ (args.watch /\ pc = "sleep")
          => /\ Len(out) >= 3
             /\ out[Len(out)] = Notice(args.interval)
             /\ out[Len(out) - 1] = Rendered(args, data, bands)
             /\ out[Len(out) - 2] = ClearText
    /\ args.watch => cause # "alert"

\* both solar fields are present, whatever their values
SolarShownIfPresent(solar) == "sfi" \in DOMAIN solar /\ "kp" \in DOMAIN solar

\* C10: for a document without an error field the Standard output has the
\* solar line exactly when the solar record has both sfi and kp, whatever
\* their numeric values, 0 included.
C10_SolarLineIffPresent ==
    (Refreshed /\ ~args.json /\ ~args.compact /\ ~AlertOn(args.alert)
       /\ "error" \notin DOMAIN data)
        => ((\E i \in 1..Len(out[1].lines) : out[1].lines[i].line = "solar")
              <=> SolarShownIfPresent(PyGet(data, "solar", EmptyObj)))

====
